---- MODULE Spec2Model ----
(***************************************************************************)
(* Model of Terraform-VPC/modules/geolocation-app/lambda_function.py:      *)
(* lambda_handler (the request handler) and get_geolocation (the lookup    *)
(* against ip-api.com).                                                    *)
(*                                                                         *)
(* Python values are tagged records, so that values of different Python    *)
(* types can be compared:                                                  *)
(*   None -> [t |-> "null"]          str  -> [t |-> "str", s |-> "..."]    *)
(*   int/float -> [t |-> "num", n]   bool -> [t |-> "bool", b]             *)
(*   dict -> [t |-> "obj", o |-> function from keys to values]             *)
(*   list -> [t |-> "arr", a |-> sequence]                                 *)
(* The text json.dumps produces is the str [t |-> "str", json |-> doc]:    *)
(* a non-empty string identified by the document it encodes.  A function   *)
(* that can raise returns [ok |-> TRUE, val |-> v] or                      *)
(* [ok |-> FALSE, exc |-> [type |-> class name, msg |-> str(e)]].          *)
(***************************************************************************)
EXTENDS Integers, Sequences, FiniteSets, TLC

VARIABLES
    phase,      \* "idle" | "returned" (Spec); "geo_input" | "geo_done" (SpecGeo)
    event,      \* the event lambda_handler was invoked with
    outcome,    \* what the network and the provider do during the lookup
    target,     \* the ip_address passed to get_geolocation, if it was called
    netlog,     \* the URLs passed to urllib.request.urlopen, in order
    geo,        \* what get_geolocation returned or raised, if it was called
    response    \* what lambda_handler returned

vars == <<phase, event, outcome, target, netlog, geo, response>>

(***************************************************************************)
(* Bounds of the model.                                                    *)
(***************************************************************************)
\* In Spec, the provider's JSON object omits at most this many of the twelve
\* fields the lookup maps (SpecGeo draws every subset).
MaxMissing == 1
\* Number of distinct sets of provider field values drawn in SpecGeo.
NumSamples == 2

(***************************************************************************)
(* Python values.                                                          *)
(***************************************************************************)
JNull == [t |-> "null"]
JStr(s) == [t |-> "str", s |-> s]
JNum(n) == [t |-> "num", n |-> n]
JBool(b) == [t |-> "bool", b |-> b]
JObj(f) == [t |-> "obj", o |-> f]
JArr(q) == [t |-> "arr", a |-> q]
EmptyDict == JObj(<<>>)

Ok(v) == [ok |-> TRUE, val |-> v]
Raise(type, msg) == [ok |-> FALSE, exc |-> [type |-> type, msg |-> msg]]

\* bool(v): Python truthiness, as used by `and event['body']` and `not ip_address`.
Truthy(v) ==
    CASE v.t = "null" -> FALSE
      [] v.t = "str"  -> IF "s" \in DOMAIN v THEN v.s # "" ELSE TRUE
      [] v.t = "num"  -> v.n # 0
      [] v.t = "bool" -> v.b
      [] v.t = "obj"  -> DOMAIN v.o # {}
      [] v.t = "arr"  -> v.a # <<>>

\* type(v).__name__, as it appears in the messages of AttributeError and TypeError.
TypeName(v) ==
    CASE v.t = "null" -> "NoneType"
      [] v.t = "str"  -> "str"
      [] v.t = "num"  -> "int"
      [] v.t = "bool" -> "bool"
      [] v.t = "obj"  -> "dict"
      [] v.t = "arr"  -> "list"

\* str(v) / f"{v}" of the values that reach an f-string.
PyStr(v) ==
    CASE v.t = "null" -> "None"
      [] v.t = "str"  -> IF "s" \in DOMAIN v THEN v.s ELSE "<json>"
      [] v.t = "num"  -> ToString(v.n)
      [] v.t = "bool" -> IF v.b THEN "True" ELSE "False"
      [] v.t = "obj"  -> "{...}"
      [] v.t = "arr"  -> "[...]"

\* d.get(k, default): AttributeError when d is no dict.
DictGet(d, k, default) ==
    IF d.t = "obj"
    THEN Ok(IF k \in DOMAIN d.o THEN d.o[k] ELSE default)
    ELSE Raise("AttributeError", "'" \o TypeName(d) \o "' object has no attribute 'get'")

\* Exception classes and their base classes (Python's built-in hierarchy, urllib.error, json).
BaseClasses(type) ==
    CASE type = "HTTPError"          -> {"HTTPError", "URLError", "OSError", "Exception"}
      [] type = "URLError"           -> {"URLError", "OSError", "Exception"}
      [] type = "TimeoutError"       -> {"TimeoutError", "OSError", "Exception"}
      [] type = "JSONDecodeError"    -> {"JSONDecodeError", "ValueError", "Exception"}
      [] type = "UnicodeDecodeError" -> {"UnicodeDecodeError", "UnicodeError", "ValueError", "Exception"}
      [] type = "AttributeError"     -> {"AttributeError", "Exception"}
      [] type = "TypeError"          -> {"TypeError", "Exception"}
      [] OTHER                       -> {"Exception"}

\* `except cls as e` matches e.
Catches(cls, exc) == cls \in BaseClasses(exc.type)

(***************************************************************************)
(* json.loads and json.dumps.                                              *)
(***************************************************************************)
\* json.dumps(v): the JSON text of v.
JsonDumps(v) == [t |-> "str", json |-> v]

\* json.loads of the literal texts the model draws.
JsonLoadsText(s) ==
    CASE s = "{}"                    -> Ok(EmptyDict)
      [] s = "{\"ip\": \"8.8.8.8\"}" -> Ok(JObj([k \in {"ip"} |-> JStr("8.8.8.8")]))
      [] s = "{\"ip\": \"1.1.1.1\"}" -> Ok(JObj([k \in {"ip"} |-> JStr("1.1.1.1")]))
      [] s = "{\"ip\": \"\"}"        -> Ok(JObj([k \in {"ip"} |-> JStr("")]))
      [] s = "{\"ip\": null}"        -> Ok(JObj([k \in {"ip"} |-> JNull]))
      [] s = "{\"city\": \"Paris\"}" -> Ok(JObj([k \in {"city"} |-> JStr("Paris")]))
      [] s = "[]"                    -> Ok(JArr(<<>>))
      [] s = "null"                  -> Ok(JNull)
      [] s = "{bad"                  -> Raise("JSONDecodeError",
                 "Expecting property name enclosed in double quotes: line 1 column 2 (char 1)")
      [] OTHER                       -> Raise("JSONDecodeError",
                 "Expecting value: line 1 column 1 (char 0)")

\* json.loads(v): TypeError unless v is a str; the document of a dumped text;
\* the parse of a literal text.
JsonLoads(v) ==
    IF v.t # "str"
    THEN Raise("TypeError",
               "the JSON object must be str, bytes or bytearray, not " \o TypeName(v))
    ELSE IF "json" \in DOMAIN v THEN Ok(v.json) ELSE JsonLoadsText(v.s)

(***************************************************************************)
(* What the network and the provider do during one lookup.                 *)
(*   refused          the connection fails: urlopen raises URLError        *)
(*   connect_timeout  the timeout expires while connecting or sending:     *)
(*                    urlopen wraps the OSError in URLError                *)
(*   http_error       a non-2xx status: urlopen raises HTTPError           *)
(*   response_timeout the timeout expires while waiting for the status     *)
(*                    line: urlopen lets the TimeoutError through          *)
(*   read_timeout     the timeout expires inside response.read()           *)
(*   body             a 2xx response whose body is `bytes`                 *)
(***************************************************************************)
Bytes(utf8, text) == [utf8 |-> utf8, text |-> text]

ProviderFields ==
    {"country", "countryCode", "region", "regionName", "city", "zip",
     "lat", "lon", "timezone", "isp", "org", "as"}

\* The value the provider supplies for field k in sample v.
ProviderValue(k, v) ==
    CASE k = "lat" -> JNum(38 + v)
      [] k = "lon" -> JNum(0 - 76 - v)
      [] OTHER     -> JStr(k \o "#" \o ToString(v))

\* An optional value is <<>> (absent) or <<v>>.
StatusChoices == {<<>>, <<JStr("success")>>, <<JStr("fail")>>}
MessageChoices == {<<>>, <<JStr("invalid query")>>, <<JNull>>}

\* The provider's JSON object: optional status and message, the supplied fields, query.
ProviderDoc(st, msg, supplied, v) ==
    JObj([k \in supplied \cup {"query"}
                 \cup (IF st # <<>> THEN {"status"} ELSE {})
                 \cup (IF msg # <<>> THEN {"message"} ELSE {}) |->
            CASE k = "status"  -> st[1]
              [] k = "message" -> msg[1]
              [] k = "query"   -> JStr("8.8.8.8")
              [] OTHER         -> ProviderValue(k, v)])

FailureOutcomes ==
    {[kind |-> "refused"], [kind |-> "connect_timeout"], [kind |-> "http_error"],
     [kind |-> "response_timeout"], [kind |-> "read_timeout"]}

BodyOutcome(bytes) == [kind |-> "body", bytes |-> bytes]

\* Bodies that are no JSON object: bytes that are not UTF-8, texts that are not
\* JSON, and JSON that is no object.
MalformedBodyOutcomes ==
    {BodyOutcome(Bytes(FALSE, JStr(""))),
     BodyOutcome(Bytes(TRUE, JStr("<html>"))),
     BodyOutcome(Bytes(TRUE, JStr(""))),
     BodyOutcome(Bytes(TRUE, JStr("[]")))}

DocOutcomes(suppliedSets, samples) ==
    {BodyOutcome(Bytes(TRUE, JsonDumps(ProviderDoc(st, msg, supplied, v)))) :
        st \in StatusChoices, msg \in MessageChoices,
        supplied \in suppliedSets, v \in samples}

\* The supplied-field sets of Spec: at most MaxMissing fields missing, or all missing.
FewMissing ==
    {ProviderFields \ m : m \in {x \in SUBSET ProviderFields : Cardinality(x) <= MaxMissing}}
        \cup {{}}

Outcomes == FailureOutcomes \cup MalformedBodyOutcomes \cup DocOutcomes(FewMissing, {1})

\* The outcomes of SpecGeo: every subset of the fields under status "success".
GeoOutcomes ==
    FailureOutcomes \cup MalformedBodyOutcomes
        \cup DocOutcomes({ProviderFields, {}}, {1})
        \cup {BodyOutcome(Bytes(TRUE, JsonDumps(ProviderDoc(<<JStr("success")>>, <<>>, supplied, v)))) :
                supplied \in SUBSET ProviderFields, v \in 1..NumSamples}

(***************************************************************************)
(* get_geolocation.                                                        *)
(***************************************************************************)
LookupUrl(ip_address) ==
    "http://ip-api.com/json/" \o PyStr(ip_address)
        \o "?fields=status,message,country,countryCode,region,regionName,city,zip,lat,lon,timezone,isp,org,as,query"

\* urllib.request.urlopen(url, timeout=10): the response, or the error it raises.
Urlopen(url, out) ==
    CASE out.kind = "refused" ->
            Raise("URLError", "<urlopen error [Errno 111] Connection refused>")
      [] out.kind = "connect_timeout" ->
            Raise("URLError", "<urlopen error timed out>")
      [] out.kind = "http_error" ->
            Raise("HTTPError", "HTTP Error 500: Internal Server Error")
      [] out.kind = "response_timeout" ->
            Raise("TimeoutError", "timed out")
      [] OTHER -> Ok(out)

\* response.read()
ResponseRead(resp) ==
    IF resp.kind = "read_timeout" THEN Raise("TimeoutError", "timed out")
    ELSE Ok(resp.bytes)

\* data.decode('utf-8')
BytesDecode(data) ==
    IF data.utf8 THEN Ok(data.text)
    ELSE Raise("UnicodeDecodeError",
               "'utf-8' codec can't decode byte 0xff in position 0: invalid start byte")

\* GeoInfo with `region` read from the provider's `region` key (variant).
GeoInfoBadRegion(geo_info) ==
    LET get(k, d) == DictGet(geo_info, k, d).val
    IN  JObj([k \in {"country", "country_code", "region", "region_code", "city", "zip_code",
                     "latitude", "longitude", "timezone", "isp", "organization", "as_info"} |->
            CASE k = "country"      -> get("country", JStr("Unknown"))
              [] k = "country_code" -> get("countryCode", JStr("Unknown"))
              [] k = "region"       -> get("region", JStr("Unknown"))
              [] k = "region_code"  -> get("region", JStr("Unknown"))
              [] k = "city"         -> get("city", JStr("Unknown"))
              [] k = "zip_code"     -> get("zip", JStr("Unknown"))
              [] k = "latitude"     -> get("lat", JNum(0))
              [] k = "longitude"    -> get("lon", JNum(0))
              [] k = "timezone"     -> get("timezone", JStr("Unknown"))
              [] k = "isp"          -> get("isp", JStr("Unknown"))
              [] k = "organization" -> get("org", JStr("Unknown"))
              [] k = "as_info"      -> get("as", JStr("Unknown"))])

\* Lines 94-107: the dict returned under status "success"; geo_info is a dict here.
GeoInfo(geo_info) ==
    LET get(k, d) == DictGet(geo_info, k, d).val
    IN  JObj([k \in {"country", "country_code", "region", "region_code", "city", "zip_code",
                     "latitude", "longitude", "timezone", "isp", "organization", "as_info"} |->
            CASE k = "country"      -> get("country", JStr("Unknown"))
              [] k = "country_code" -> get("countryCode", JStr("Unknown"))
              [] k = "region"       -> get("regionName", JStr("Unknown"))
              [] k = "region_code"  -> get("region", JStr("Unknown"))
              [] k = "city"         -> get("city", JStr("Unknown"))
              [] k = "zip_code"     -> get("zip", JStr("Unknown"))
              [] k = "latitude"     -> get("lat", JNum(0))
              [] k = "longitude"    -> get("lon", JNum(0))
              [] k = "timezone"     -> get("timezone", JStr("Unknown"))
              [] k = "isp"          -> get("isp", JStr("Unknown"))
              [] k = "organization" -> get("org", JStr("Unknown"))
              [] k = "as_info"      -> get("as", JStr("Unknown"))])

\* ApiErrorMessage with an empty default text (variant).
ApiErrorMessageNoDefault(geo_info) ==
    "Geolocation API error: " \o PyStr(DictGet(geo_info, "message", JStr("")).val)

\* Lines 110-111: the message of the exception raised for a status other than "success".
ApiErrorMessage(geo_info) ==
    "Geolocation API error: "
        \o PyStr(DictGet(geo_info, "message", JStr("Unknown error from geolocation API")).val)

\* The body of the try block.
GeoTry(ip_address, out) ==
    LET opened == Urlopen(LookupUrl(ip_address), out) IN
    IF ~opened.ok THEN opened ELSE
    LET data == ResponseRead(opened.val) IN
    IF ~data.ok THEN data ELSE
    LET text == BytesDecode(data.val) IN
    IF ~text.ok THEN text ELSE
    LET geo_info == JsonLoads(text.val) IN
    IF ~geo_info.ok THEN geo_info ELSE
    LET status == DictGet(geo_info.val, "status", JNull) IN
    IF ~status.ok THEN status ELSE
    IF status.val = JStr("success")
    THEN Ok(GeoInfo(geo_info.val))
    ELSE Raise("Exception", ApiErrorMessage(geo_info.val))

\* The three except clauses, tried in order.
GeoExcept(exc) ==
    IF Catches("URLError", exc)
    THEN Raise("Exception", "Network error while fetching geolocation: " \o exc.msg)
    ELSE IF Catches("JSONDecodeError", exc)
    THEN Raise("Exception", "Invalid response from geolocation API: " \o exc.msg)
    ELSE IF Catches("Exception", exc)
    THEN Raise("Exception", "Failed to get geolocation: " \o exc.msg)
    ELSE [ok |-> FALSE, exc |-> exc]

\* get_geolocation(ip_address): what it returns or raises.
GetGeolocationResult(ip_address, out) ==
    LET r == GeoTry(ip_address, out)
    IN  IF r.ok THEN r ELSE GeoExcept(r.exc)

\* GetGeolocationUrls with the request repeated after a failure (variant).
GetGeolocationUrlsRetry(ip_address, out) ==
    IF GeoTry(ip_address, out).ok
    THEN <<LookupUrl(ip_address)>>
    ELSE <<LookupUrl(ip_address), LookupUrl(ip_address)>>

\* The URLs get_geolocation opens, in order: the one urlopen call of line 86.
GetGeolocationUrls(ip_address, out) == <<LookupUrl(ip_address)>>

(***************************************************************************)
(* lambda_handler.                                                         *)
(***************************************************************************)
\* The events drawn: an optional body and an optional requestContext.
BodyChoices ==
    {<<>>, <<JNull>>, <<JStr("")>>, <<JStr("{}")>>,
     <<JStr("{\"ip\": \"8.8.8.8\"}")>>, <<JStr("{\"ip\": \"1.1.1.1\"}")>>,
     <<JStr("{\"ip\": \"\"}")>>, <<JStr("{\"ip\": null}")>>,
     <<JStr("{\"city\": \"Paris\"}")>>,
     <<JStr("{bad")>>, <<JStr("[]")>>, <<JStr("null")>>,
     <<JObj([k \in {"ip"} |-> JStr("8.8.8.8")])>>}

Identity(sourceIp) == JObj([k \in {"identity"} |-> JObj([j \in {"sourceIp"} |-> sourceIp])])

ContextChoices ==
    {<<>>, <<JNull>>, <<EmptyDict>>,
     <<JObj([k \in {"identity"} |-> JNull])>>,
     <<JObj([k \in {"identity"} |-> EmptyDict])>>,
     <<Identity(JStr("192.168.1.1"))>>, <<Identity(JStr(""))>>, <<Identity(JNull)>>}

MakeEvent(b, c) ==
    JObj([k \in (IF b # <<>> THEN {"body"} ELSE {})
                 \cup (IF c # <<>> THEN {"requestContext"} ELSE {}) |->
            IF k = "body" THEN b[1] ELSE c[1]])

\* Lines 20-23: the parsed body.
ParseBody(ev) ==
    IF "body" \in DOMAIN ev.o /\ Truthy(ev.o["body"])
    THEN JsonLoads(ev.o["body"])
    ELSE Ok(EmptyDict)

\* TargetIp with the source IP taking priority over the body's ip (variant).
TargetIpSourceFirst(ev, body) ==
    LET rc == DictGet(ev, "requestContext", EmptyDict) IN
    IF ~rc.ok THEN rc ELSE
    LET idn == DictGet(rc.val, "identity", EmptyDict) IN
    IF ~idn.ok THEN idn ELSE
    LET src == DictGet(idn.val, "sourceIp", JNull) IN
    IF ~src.ok THEN src ELSE
    IF Truthy(src.val) THEN src ELSE
    LET ip == DictGet(body, "ip", JNull) IN
    IF ~ip.ok THEN ip ELSE
    IF Truthy(ip.val) THEN ip ELSE Ok(JStr("8.8.8.8"))

\* Lines 26-29: the IP address to look up.
TargetIp(ev, body) ==
    LET ip == DictGet(body, "ip", JNull) IN
    IF ~ip.ok THEN ip ELSE
    IF Truthy(ip.val) THEN ip ELSE
    LET rc == DictGet(ev, "requestContext", EmptyDict) IN
    IF ~rc.ok THEN rc ELSE
    LET idn == DictGet(rc.val, "identity", EmptyDict) IN
    IF ~idn.ok THEN idn ELSE
    DictGet(idn.val, "sourceIp", JStr("8.8.8.8"))

\* SuccessResponse reporting the fallback address instead of ip_address (variant).
SuccessResponseFixedIp(ip_address, geo_data) ==
    [statusCode |-> 200,
     headers |-> [h \in {"Content-Type", "Access-Control-Allow-Origin",
                         "Access-Control-Allow-Methods", "Access-Control-Allow-Headers"} |->
                    CASE h = "Content-Type"                 -> "application/json"
                      [] h = "Access-Control-Allow-Origin"  -> "*"
                      [] h = "Access-Control-Allow-Methods" -> "POST, OPTIONS"
                      [] h = "Access-Control-Allow-Headers" -> "Content-Type"],
     body |-> JsonDumps(JObj([k \in {"success", "ip", "location", "message"} |->
                CASE k = "success"  -> JBool(TRUE)
                  [] k = "ip"       -> JStr("8.8.8.8")
                  [] k = "location" -> geo_data
                  [] k = "message"  -> JStr("Geolocation retrieved successfully")]))]

\* Lines 37-53: the response of the success path.
SuccessResponse(ip_address, geo_data) ==
    [statusCode |-> 200,
     headers |-> [h \in {"Content-Type", "Access-Control-Allow-Origin",
                         "Access-Control-Allow-Methods", "Access-Control-Allow-Headers"} |->
                    CASE h = "Content-Type"                 -> "application/json"
                      [] h = "Access-Control-Allow-Origin"  -> "*"
                      [] h = "Access-Control-Allow-Methods" -> "POST, OPTIONS"
                      [] h = "Access-Control-Allow-Headers" -> "Content-Type"],
     body |-> JsonDumps(JObj([k \in {"success", "ip", "location", "message"} |->
                CASE k = "success"  -> JBool(TRUE)
                  [] k = "ip"       -> ip_address
                  [] k = "location" -> geo_data
                  [] k = "message"  -> JStr("Geolocation retrieved successfully")]))]

\* ErrorResponse without the CORS headers (variant).
ErrorResponseNoCors(exc) ==
    [statusCode |-> 500,
     headers |-> [h \in {"Content-Type"} |-> "application/json"],
     body |-> JsonDumps(JObj([k \in {"success", "error", "message"} |->
                CASE k = "success" -> JBool(FALSE)
                  [] k = "error"   -> JStr(exc.msg)
                  [] k = "message" -> JStr("Failed to retrieve geolocation")]))]

\* ErrorResponse with a null location in the envelope (variant).
ErrorResponseWithLocation(exc) ==
    [statusCode |-> 500,
     headers |-> [h \in {"Content-Type", "Access-Control-Allow-Origin",
                         "Access-Control-Allow-Methods", "Access-Control-Allow-Headers"} |->
                    CASE h = "Content-Type"                 -> "application/json"
                      [] h = "Access-Control-Allow-Origin"  -> "*"
                      [] h = "Access-Control-Allow-Methods" -> "POST, OPTIONS"
                      [] h = "Access-Control-Allow-Headers" -> "Content-Type"],
     body |-> JsonDumps(JObj([k \in {"success", "error", "message", "location"} |->
                CASE k = "success"  -> JBool(FALSE)
                  [] k = "error"    -> JStr(exc.msg)
                  [] k = "location" -> JNull
                  [] k = "message"  -> JStr("Failed to retrieve geolocation")]))]

\* Lines 56-73: the response of the except block.
ErrorResponse(exc) ==
    [statusCode |-> 500,
     headers |-> [h \in {"Content-Type", "Access-Control-Allow-Origin",
                         "Access-Control-Allow-Methods", "Access-Control-Allow-Headers"} |->
                    CASE h = "Content-Type"                 -> "application/json"
                      [] h = "Access-Control-Allow-Origin"  -> "*"
                      [] h = "Access-Control-Allow-Methods" -> "POST, OPTIONS"
                      [] h = "Access-Control-Allow-Headers" -> "Content-Type"],
     body |-> JsonDumps(JObj([k \in {"success", "error", "message"} |->
                CASE k = "success" -> JBool(FALSE)
                  [] k = "error"   -> JStr(exc.msg)
                  [] k = "message" -> JStr("Failed to retrieve geolocation")]))]

NotCalled == [called |-> FALSE]
Called(ip_address) == [called |-> TRUE, ip |-> ip_address]
NoValue == [none |-> TRUE]

\* OuterCatches narrowed to `except ValueError` (variant).
OuterCatchesValueError(exc) == Catches("ValueError", exc)

\* `except Exception as e` at the outer boundary: the exceptions it converts.
OuterCatches(exc) == Catches("Exception", exc)

\* One run of lambda_handler(event, context) against the network outcome `out`:
\* the argument of get_geolocation, the URLs opened, the result of
\* get_geolocation, and what the handler returns (or the exception it lets through).
HandlerRun(ev, out) ==
    LET body == ParseBody(ev)
        ip   == IF body.ok THEN TargetIp(ev, body.val) ELSE body
        g    == IF ip.ok THEN GetGeolocationResult(ip.val, out) ELSE ip
        try  == IF g.ok THEN Ok(SuccessResponse(ip.val, g.val)) ELSE g
    IN  [target   |-> IF ip.ok THEN Called(ip.val) ELSE NotCalled,
         netlog   |-> IF ip.ok THEN GetGeolocationUrls(ip.val, out) ELSE <<>>,
         geo      |-> IF ip.ok THEN g ELSE NotCalled,
         response |-> IF try.ok THEN try.val
                      ELSE IF OuterCatches(try.exc) THEN ErrorResponse(try.exc)
                      ELSE [propagated |-> try.exc]]

(***************************************************************************)
(* Spec: invocations of lambda_handler, one at a time; nothing persists    *)
(* from one invocation to the next.                                        *)
(***************************************************************************)
Init ==
    /\ phase = "idle"
    /\ event = NoValue
    /\ outcome = NoValue
    /\ target = NotCalled
    /\ netlog = <<>>
    /\ geo = NotCalled
    /\ response = NoValue

LambdaHandler ==
    /\ phase = "idle"
    /\ \E b \in BodyChoices, c \in ContextChoices, out \in Outcomes :
         LET ev == MakeEvent(b, c)
             run == HandlerRun(ev, out)
         IN  /\ event' = ev
             /\ outcome' = out
             /\ target' = run.target
             /\ netlog' = run.netlog
             /\ geo' = run.geo
             /\ response' = run.response
    /\ phase' = "returned"

\* The response has been handed back; the next event finds a fresh handler.
NextInvocation ==
    /\ phase = "returned"
    /\ phase' = "idle"
    /\ event' = NoValue
    /\ outcome' = NoValue
    /\ target' = NotCalled
    /\ netlog' = <<>>
    /\ geo' = NotCalled
    /\ response' = NoValue

Next == LambdaHandler \/ NextInvocation

Spec == Init /\ [][Next]_vars

(***************************************************************************)
(* SpecGeo: get_geolocation alone, on every subset of the provider fields. *)
(***************************************************************************)
GeoIps == {JStr("8.8.8.8"), JStr("192.168.1.1")}

InitGeo ==
    /\ phase = "geo_input"
    /\ event = NoValue
    /\ outcome \in GeoOutcomes
    /\ target \in {Called(ip) : ip \in GeoIps}
    /\ netlog = <<>>
    /\ geo = NotCalled
    /\ response = NoValue

GetGeolocation ==
    /\ phase = "geo_input"
    /\ phase' = "geo_done"
    /\ geo' = GetGeolocationResult(target.ip, outcome)
    /\ netlog' = GetGeolocationUrls(target.ip, outcome)
    /\ UNCHANGED <<event, outcome, target, response>>

NextGeo == GetGeolocation

SpecGeo == InitGeo /\ [][NextGeo]_vars

(***************************************************************************)
(* Vocabulary of the properties.                                           *)
(***************************************************************************)
Returned == phase = "returned"

\* The envelope decoded from the response body.
Envelope == response.body.json.o

\* t occurs in s.
Contains(s, t) ==
    \E i \in 1..(Len(s) - Len(t) + 1) : SubSeq(s, i, i + Len(t) - 1) = t

StartsWith(s, t) == Len(s) >= Len(t) /\ SubSeq(s, 1, Len(t)) = t

\* The event's parsed body has a non-empty `ip`.
HasBodyIp ==
    LET b == ParseBody(event)
    IN  b.ok /\ b.val.t = "obj" /\ "ip" \in DOMAIN b.val.o /\ Truthy(b.val.o["ip"])

\* The event has requestContext.identity.sourceIp.
HasSourceIp ==
    /\ "requestContext" \in DOMAIN event.o
    /\ event.o["requestContext"].t = "obj"
    /\ "identity" \in DOMAIN event.o["requestContext"].o
    /\ event.o["requestContext"].o["identity"].t = "obj"
    /\ "sourceIp" \in DOMAIN event.o["requestContext"].o["identity"].o

SourceIp == event.o["requestContext"].o["identity"].o["sourceIp"]

\* The provider answered with a JSON object.
ProviderSentObject ==
    /\ outcome.kind = "body"
    /\ outcome.bytes.utf8
    /\ "json" \in DOMAIN outcome.bytes.text
    /\ outcome.bytes.text.json.t = "obj"

ProviderObject == outcome.bytes.text.json.o

ProviderSaysSuccess ==
    /\ ProviderSentObject
    /\ "status" \in DOMAIN ProviderObject
    /\ ProviderObject["status"] = JStr("success")

(***************************************************************************)
(* C1: the IP passed to get_geolocation is the parsed body's `ip` if it is *)
(* present and non-empty, else requestContext.identity.sourceIp, else      *)
(* "8.8.8.8"; a body ip wins over a source IP, an empty body with source   *)
(* IP 192.168.1.1 yields 192.168.1.1, no body and no source IP yields      *)
(* 8.8.8.8.                                                                *)
(***************************************************************************)
C1_TargetIpPriority ==
    Returned =>
      /\ target.called =>
           target.ip = IF HasBodyIp THEN ParseBody(event).val.o["ip"]
                       ELSE IF HasSourceIp THEN SourceIp
                       ELSE JStr("8.8.8.8")
      /\ event = MakeEvent(<<JStr("{\"ip\": \"8.8.8.8\"}")>>, <<Identity(JStr("192.168.1.1"))>>)
           => target = Called(JStr("8.8.8.8"))
      /\ event = MakeEvent(<<JStr("{\"ip\": \"1.1.1.1\"}")>>, <<Identity(JStr("192.168.1.1"))>>)
           => target = Called(JStr("1.1.1.1"))
      /\ event = MakeEvent(<<JStr("")>>, <<Identity(JStr("192.168.1.1"))>>)
           => target = Called(JStr("192.168.1.1"))
      /\ event = MakeEvent(<<JStr("{}")>>, <<Identity(JStr("192.168.1.1"))>>)
           => target = Called(JStr("192.168.1.1"))
      /\ event = MakeEvent(<<>>, <<>>) => target = Called(JStr("8.8.8.8"))

C1_Witness ==
    /\ Returned
    /\ HasBodyIp /\ HasSourceIp
    /\ SourceIp = JStr("192.168.1.1")
    /\ target = Called(JStr("1.1.1.1"))

(***************************************************************************)
(* C2: on any failure in body parsing, target-IP determination, the lookup *)
(* or building the success response, lambda_handler lets no exception      *)
(* through: it returns statusCode 500 with success false, message "Failed  *)
(* to retrieve geolocation" and error the failure's message text; every    *)
(* kind of failure maps to this envelope and status.                       *)
(***************************************************************************)
\* The failure that reaches the outer boundary: of the lookup when it was
\* called, else of body parsing or target-IP determination.
BoundaryFailure ==
    IF target.called THEN geo
    ELSE LET b == ParseBody(event)
         IN  IF b.ok THEN TargetIp(event, b.val) ELSE b

IsErrorEnvelope(text) ==
    /\ response.statusCode = 500
    /\ response.body.t = "str"
    /\ DOMAIN Envelope = {"success", "error", "message"}
    /\ Envelope["success"] = JBool(FALSE)
    /\ Envelope["message"] = JStr("Failed to retrieve geolocation")
    /\ Envelope["error"] = JStr(text)

C2_FailuresBecomeErrorEnvelope ==
    Returned =>
      /\ "propagated" \notin DOMAIN response
      /\ ~BoundaryFailure.ok => IsErrorEnvelope(BoundaryFailure.exc.msg)
      \* malformed input JSON
      /\ ("body" \in DOMAIN event.o /\ event.o["body"] = JStr("{bad")) =>
            IsErrorEnvelope("Expecting property name enclosed in double quotes: line 1 column 2 (char 1)")
      \* network failure
      /\ (target.called /\ outcome.kind = "refused") =>
            IsErrorEnvelope("Network error while fetching geolocation: <urlopen error [Errno 111] Connection refused>")
      \* provider-reported error
      /\ (target.called /\ ProviderSentObject /\ ~ProviderSaysSuccess) =>
            response.statusCode = 500 /\ Envelope["success"] = JBool(FALSE)
      \* malformed provider response
      /\ (target.called /\ outcome.kind = "body" /\ ~ProviderSentObject) =>
            response.statusCode = 500 /\ Envelope["success"] = JBool(FALSE)
      \* any other fault
      /\ ~target.called => response.statusCode = 500 /\ Envelope["success"] = JBool(FALSE)

C2_Witness ==
    /\ Returned
    /\ ~target.called
    /\ "requestContext" \in DOMAIN event.o /\ event.o["requestContext"] = JNull
    /\ IsErrorEnvelope("'NoneType' object has no attribute 'get'")

(***************************************************************************)
(* C3: whenever the lookup succeeds, lambda_handler returns statusCode 200 *)
(* with success true, ip the target IP that was looked up, location the    *)
(* GeoInfo get_geolocation returned and message "Geolocation retrieved     *)
(* successfully"; statusCode 200 is returned only then, every other        *)
(* outcome is 500.                                                         *)
(***************************************************************************)
LookupSucceeded == target.called /\ geo.ok

C3_SuccessEnvelope ==
    Returned =>
      /\ "statusCode" \in DOMAIN response
      /\ response.statusCode \in {200, 500}
      /\ response.statusCode = 200 <=> LookupSucceeded
      /\ (target.called /\ ProviderSaysSuccess) => LookupSucceeded
      /\ LookupSucceeded =>
           /\ DOMAIN Envelope = {"success", "ip", "location", "message"}
           /\ Envelope["success"] = JBool(TRUE)
           /\ Envelope["ip"] = target.ip
           /\ netlog = <<LookupUrl(Envelope["ip"])>>
           /\ Envelope["location"] = geo.val
           /\ Envelope["message"] = JStr("Geolocation retrieved successfully")
      /\ (event = MakeEvent(<<JStr("{\"ip\": \"8.8.8.8\"}")>>, <<Identity(JStr("192.168.1.1"))>>)
            /\ ProviderSaysSuccess) =>
           /\ response.statusCode = 200
           /\ Envelope["success"] = JBool(TRUE)
           /\ Envelope["ip"] = JStr("8.8.8.8")

C3_Witness ==
    /\ Returned
    /\ LookupSucceeded
    /\ response.statusCode = 200
    /\ Envelope["ip"] = JStr("1.1.1.1")
    /\ Envelope["location"].o["city"] = JStr("city#1")

(***************************************************************************)
(* C4: every response lambda_handler returns, on the success path and on   *)
(* every failure path, carries exactly the four headers Content-Type:      *)
(* application/json, Access-Control-Allow-Origin: *,                       *)
(* Access-Control-Allow-Methods: POST, OPTIONS and                         *)
(* Access-Control-Allow-Headers: Content-Type.                             *)
(***************************************************************************)
C4_FixedHeaders ==
    Returned =>
      /\ "headers" \in DOMAIN response
      /\ response.headers =
            ("Content-Type" :> "application/json"
             @@ "Access-Control-Allow-Origin" :> "*"
             @@ "Access-Control-Allow-Methods" :> "POST, OPTIONS"
             @@ "Access-Control-Allow-Headers" :> "Content-Type")

C4_Witness ==
    /\ Returned
    /\ response.statusCode = 500
    /\ Cardinality(DOMAIN response.headers) = 4
    /\ response.headers["Access-Control-Allow-Methods"] = "POST, OPTIONS"

(***************************************************************************)
(* C5: when the provider response has status "success", get_geolocation    *)
(* returns a mapping with all twelve GeoInfo keys for every subset of      *)
(* fields the provider supplies: a field absent from the provider response *)
(* is "Unknown" (0 for latitude and longitude), never omitted, never null; *)
(* a supplied field carries the provider's value (regionName -> region,    *)
(* region -> region_code).                                                 *)
(***************************************************************************)
\* <<GeoInfo key, provider key, value when the provider key is absent>>
GeoInfoShape ==
    {<<"country", "country", JStr("Unknown")>>,
     <<"country_code", "countryCode", JStr("Unknown")>>,
     <<"region", "regionName", JStr("Unknown")>>,
     <<"region_code", "region", JStr("Unknown")>>,
     <<"city", "city", JStr("Unknown")>>,
     <<"zip_code", "zip", JStr("Unknown")>>,
     <<"latitude", "lat", JNum(0)>>,
     <<"longitude", "lon", JNum(0)>>,
     <<"timezone", "timezone", JStr("Unknown")>>,
     <<"isp", "isp", JStr("Unknown")>>,
     <<"organization", "org", JStr("Unknown")>>,
     <<"as_info", "as", JStr("Unknown")>>}

C5_GeoInfoDefaults ==
    (phase = "geo_done" /\ ProviderSaysSuccess) =>
      /\ geo.ok
      /\ geo.val.t = "obj"
      /\ DOMAIN geo.val.o = {m[1] : m \in GeoInfoShape}
      /\ \A m \in GeoInfoShape :
           /\ geo.val.o[m[1]] # JNull
           /\ geo.val.o[m[1]] =
                IF m[2] \in DOMAIN ProviderObject THEN ProviderObject[m[2]] ELSE m[3]

C5_Witness ==
    /\ phase = "geo_done"
    /\ ProviderSaysSuccess
    /\ "regionName" \in DOMAIN ProviderObject
    /\ DOMAIN ProviderObject \cap {"region", "lat", "city"} = {}
    /\ geo.ok
    /\ geo.val.o["region"] = JStr("regionName#2")
    /\ geo.val.o["region_code"] = JStr("Unknown")
    /\ geo.val.o["latitude"] = JNum(0)
    /\ geo.val.o["city"] = JStr("Unknown")

(***************************************************************************)
(* C6: when the provider response parses as JSON but its status is not     *)
(* "success" (a missing status included), get_geolocation fails with a     *)
(* lookup error whose message embeds the provider's reported message, or a *)
(* default "Unknown error" text when the provider gave none, and           *)
(* lambda_handler returns statusCode 500 with success false and that text  *)
(* inside error.                                                           *)
(***************************************************************************)
\* The text of the lookup error for the provider's object.
ReportedError ==
    IF "message" \in DOMAIN ProviderObject
    THEN "Geolocation API error: " \o PyStr(ProviderObject["message"])
    ELSE "Geolocation API error: Unknown error"

ProviderSentInvalidJson ==
    /\ outcome.kind = "body"
    /\ \/ ~outcome.bytes.utf8
       \/ ~JsonLoads(outcome.bytes.text).ok

C7_InvalidJsonIsParseError ==
    (Returned /\ target.called /\ ProviderSentInvalidJson) =>
      /\ ~geo.ok
      /\ StartsWith(geo.exc.msg, "Invalid response from geolocation API: ")
      /\ response.statusCode = 500
      /\ Contains(Envelope["error"].s, "Invalid response")

(***************************************************************************)
(* C8: when the outbound call fails by a connection error, a timeout or a  *)
(* non-2xx response, get_geolocation fails with a network error wrapping   *)
(* the cause (the URLError handler classifies it, not the parse-error or   *)
(* generic handler) and the 500 response's error carries that text.        *)
(***************************************************************************)
NetworkCallFailed ==
    outcome.kind \in {"refused", "connect_timeout", "http_error",
                      "response_timeout", "read_timeout"}

C8_NetworkFailureIsNetworkError ==
    (Returned /\ target.called /\ NetworkCallFailed) =>
      /\ ~geo.ok
      /\ StartsWith(geo.exc.msg, "Network error while fetching geolocation: ")
      /\ response.statusCode = 500
      /\ Envelope["error"] = JStr(geo.exc.msg)

(***************************************************************************)
(* C9: every invocation of lambda_handler issues one outbound call to the  *)
(* lookup provider: never more than one (no retry, the ipinfo lookup is    *)
(* never invoked), and one for each invocation whatever the request body.  *)
(***************************************************************************)
\* As claimed: exactly one call in every invocation.
C9_ExactlyOneCall ==
    Returned =>
      /\ Len(netlog) = 1
      /\ \A i \in 1..Len(netlog) : StartsWith(netlog[i], "http://ip-api.com/json/")

\* Body parsing and target-IP determination raise nothing.
TargetDetermined ==
    LET b == ParseBody(event)
    IN  /\ b.ok
        /\ b.val.t = "obj"
        /\ \/ HasBodyIp
           \/ "requestContext" \notin DOMAIN event.o
           \/ /\ event.o["requestContext"].t = "obj"
              /\ \/ "identity" \notin DOMAIN event.o["requestContext"].o
                 \/ event.o["requestContext"].o["identity"].t = "obj"

\* As amended: at most one call, to ip-api.com; exactly one when body parsing
\* and target-IP determination succeed, none when they fail.
C9_AtMostOneCall ==
    Returned =>
      /\ Len(netlog) <= 1
      /\ \A i \in 1..Len(netlog) : StartsWith(netlog[i], "http://ip-api.com/json/")
      /\ TargetDetermined => Len(netlog) = 1 /\ target.called
      /\ ~TargetDetermined => Len(netlog) = 0 /\ ~target.called

C9_Witness ==
    /\ Returned
    /\ TargetDetermined
    /\ NetworkCallFailed
    /\ netlog = <<LookupUrl(JStr("192.168.1.1"))>>

(***************************************************************************)
(* C10: every response body is a ResponseEnvelope in which success, ip and *)
(* message are always present and location and error are the only fields   *)
(* that may be absent: location is present exactly when success is true    *)
(* (200), error exactly when success is false (500).                       *)
(***************************************************************************)
\* As claimed.
C10_IpAlwaysPresent ==
    Returned =>
      /\ {"success", "ip", "message"} \subseteq DOMAIN Envelope
      /\ DOMAIN Envelope \subseteq {"success", "ip", "location", "message", "error"}
      /\ "location" \in DOMAIN Envelope <=> Envelope["success"] = JBool(TRUE)
      /\ "error" \in DOMAIN Envelope <=> Envelope["success"] = JBool(FALSE)

\* As amended: ip, like location, is present exactly when success is true.
C10_EnvelopeShape ==
    Returned =>
      /\ "body" \in DOMAIN response
      /\ {"success", "message"} \subseteq DOMAIN Envelope
      /\ DOMAIN Envelope \subseteq {"success", "ip", "location", "message", "error"}
      /\ Envelope["success"].t = "bool"
      /\ Envelope["message"].t = "str"
      /\ Envelope["success"].b <=> response.statusCode = 200
      /\ ~Envelope["success"].b <=> response.statusCode = 500
      /\ "ip" \in DOMAIN Envelope <=> Envelope["success"].b
      /\ "location" \in DOMAIN Envelope <=> Envelope["success"].b
      /\ "error" \in DOMAIN Envelope <=> ~Envelope["success"].b
      /\ "location" \in DOMAIN Envelope => Envelope["location"].t = "obj"
      /\ "error" \in DOMAIN Envelope => Envelope["error"].t = "str"

C10_Witness ==
    /\ Returned
    /\ response.statusCode = 500
    /\ DOMAIN Envelope = {"success", "error", "message"}
    /\ ~target.called

====
